---- MODULE Spec2Model ----
(***************************************************************************)
(* Conversation Session Engine of the pth-chatbot-v2 web client.           *)
(*                                                                         *)
(* The model follows frontend/src/App.jsx (the streaming client) and       *)
(* frontend/src/api.js.  React state (useState) and refs (useRef) are the  *)
(* variables; every event handler is one action; the asynchronous send     *)
(* and upload handlers are split at their await points.  A handler keeps   *)
(* the activeId of the render it was created in (a closure), which is why  *)
(* every run records the session id it captured when it started.           *)
(*                                                                         *)
(* Texts are sequences of one-character (or one-token) strings, so that    *)
(* trim, slice, concatenation and escaping are computed, not assumed.      *)
(***************************************************************************)
EXTENDS Integers, Sequences, FiniteSets, TLC

(* ------------------------------ bounds -------------------------------- *)
\* session ids ever generated (crypto.randomUUID is a fresh-id source)
MaxIds == 2
\* send pipeline runs started in one behaviour
MaxSends == 2
\* sends accepted plus uploads started in one behaviour
MaxOps == 2
\* fragments the transport delivers to one streaming send
MaxFrags == 2
\* uploads started in one behaviour
MaxUploads == 1
\* clock advances in one behaviour
MaxTicks == 2
\* milliseconds per clock advance
TickMs == 600
\* length of the texts given to the renderer
MaxLen == 5

(* ------------------------- program constants -------------------------- *)
\* App.jsx:207  now - lastSendRef.current.t < 1200
DEDUPE_MS == 1200
\* App.jsx:167  text.slice(0, 32)
TITLE_MAX == 32

\* Date.now() when the page is loaded
START_MS == 1200

NEW_CHAT == <<"New chat">>
GREETING == <<"Hi! Ask me about banking cyber safety.">>
SERVER_ERROR == <<"Server error: ">>
UPLOAD_ERROR == <<"Upload error: ">>
UPLOADED_PREFIX == <<"(", "u", "p", "l", "o", "a", "d", "e", "d", ":", " ">>

VARIABLES
    sessions,     \* useState: ordered collection of sessions, newest first
    activeId,     \* useState: id of the active session
    input,        \* useState: content of the composer textarea
    busy,         \* useState: a send is being processed
    uploading,    \* useState: an upload is being processed
    sendingRef,   \* useRef: the send guard's inFlight flag
    lastSendRef,  \* useRef: {text, t} written by the de-dupe guard
    nextId,       \* the next id the id source hands out
    clock,        \* Date.now(), in milliseconds
    runs,         \* one record per send accepted by the guard
    uploads,      \* one record per upload started
    persisted,    \* localStorage: the content stored under SESS_KEY
    guardOwner,   \* history: the run that set sendingRef, 0 when none
    lastAccepted, \* history: {text, t} of the last send the guard accepted
    lastOp,       \* history: the handler or step that acted last
    mdIn,         \* renderer: the text given to mdLite
    mdOut,        \* renderer: the markup mdLite returned
    mdDone,       \* renderer: mdLite has been applied
    anIn,         \* annotation: the arguments given to maybeAttachNote
    anOut,        \* annotation: what one and two applications returned
    anDone,       \* annotation: maybeAttachNote has been applied
    call          \* transport: the http call being made, its timer and outcome

vars == <<sessions, activeId, input, busy, uploading, sendingRef, lastSendRef,
          nextId, clock, runs, uploads, persisted, guardOwner, lastAccepted,
          lastOp, mdIn, mdOut, mdDone, anIn, anOut, anDone, call>>

storeVars == <<sessions, activeId, input, busy, uploading, sendingRef,
               lastSendRef, nextId, clock, runs, uploads, persisted,
               guardOwner, lastAccepted, lastOp>>
mdVars == <<mdIn, mdOut, mdDone>>
anVars == <<anIn, anOut, anDone>>

(* ------------------------------ helpers ------------------------------- *)
Min(a, b) == IF a < b THEN a ELSE b

IsSpace(c) == c \in {" ", "\n"}

RECURSIVE TrimStart(_)
TrimStart(s) ==
    IF s # <<>> /\ IsSpace(Head(s)) THEN TrimStart(Tail(s)) ELSE s

RECURSIVE TrimEnd(_)
TrimEnd(s) ==
    IF s # <<>> /\ IsSpace(s[Len(s)])
    THEN TrimEnd(SubSeq(s, 1, Len(s) - 1))
    ELSE s

\* String.prototype.trim
Trim(s) == TrimEnd(TrimStart(s))

\* String.prototype.slice(0, n)
Slice0(s, n) == SubSeq(s, 1, Min(Len(s), n))

Ids(all) == {all[i].id : i \in 1..Len(all)}

\* sessions.find((s) => s.id === id)
HasSession(all, id) == id \in Ids(all)
Find(all, id) == all[CHOOSE i \in 1..Len(all) : all[i].id = id]

FilterOutTail(all, id) == Tail(all)

\* all.filter((s) => s.id !== id)
RECURSIVE FilterOut(_, _)
FilterOut(all, id) ==
    IF all = <<>> THEN <<>>
    ELSE IF Head(all).id = id THEN FilterOut(Tail(all), id)
    ELSE <<Head(all)>> \o FilterOut(Tail(all), id)

\* newSession(): fresh id, default title, the seeded greeting
newSessionSameId(id, now) ==
    [id |-> 1, title |-> NEW_CHAT,
     messages |-> <<[role |-> "assistant", text |-> GREETING]>>,
     createdAt |-> now]

newSession(id, now) ==
    [id |-> id, title |-> NEW_CHAT,
     messages |-> <<[role |-> "assistant", text |-> GREETING]>>,
     createdAt |-> now]

(* --------------------------- Session Store ---------------------------- *)
\* setActiveSession reads activeId from the closure of the handler that
\* calls it: the id captured when that handler started.
SessionTargetCurrent(captured, current) == current
SessionTarget(captured, current) == captured

MapAppendAll(all, target, msg, retitle) ==
    [i \in 1..Len(all) |-> [all[i] EXCEPT !.messages = Append(@, msg)]]

\* setActiveSession: all.map((s) => (s.id === activeId ? updater(s) : s))
\* with updater = "append this message, and retitle when asked"
MapAppend(all, target, msg, retitle) ==
    [i \in 1..Len(all) |->
        IF all[i].id = target
        THEN [all[i] EXCEPT
                !.title = IF retitle /\ @ = NEW_CHAT
                          THEN (IF Slice0(msg.text, TITLE_MAX) # <<>>
                                THEN Slice0(msg.text, TITLE_MAX)
                                ELSE NEW_CHAT)
                          ELSE @,
                !.messages = Append(@, msg)]
        ELSE all[i]]

appendUserMessageNone(all, target, text) == all
appendUserMessage(all, target, text) ==
    MapAppend(all, target, [role |-> "user", text |-> text], TRUE)

appendAssistantMessageTwice(all, target, text) ==
    MapAppend(MapAppend(all, target, [role |-> "assistant", text |-> text],
                        FALSE),
              target, [role |-> "assistant", text |-> text], FALSE)

appendAssistantMessage(all, target, text) ==
    MapAppend(all, target, [role |-> "assistant", text |-> text], FALSE)

SetAssistantAtEarlier(all, target, index, msg) ==
    [i \in 1..Len(all) |->
        IF all[i].id = target /\ index >= 2 /\ index < Len(all[i].messages)
        THEN [all[i] EXCEPT !.messages[index - 1] = msg]
        ELSE all[i]]

\* the updaters of send that write msgs[assistantIndex]; assistantIndex is
\* the JavaScript (0-based) index, guarded by 0 <= index < msgs.length
SetAssistantAt(all, target, index, msg) ==
    [i \in 1..Len(all) |->
        IF all[i].id = target /\ index >= 0 /\ index < Len(all[i].messages)
        THEN [all[i] EXCEPT !.messages[index + 1] = msg]
        ELSE all[i]]

SetAssistantTextFirst(all, target, index, text) ==
    [i \in 1..Len(all) |->
        IF all[i].id = target
        THEN [all[i] EXCEPT !.messages[1].text = text]
        ELSE all[i]]

\* chunk callback: msgs[assistantIndex] = { ...msgs[assistantIndex], text: acc }
SetAssistantText(all, target, index, text) ==
    [i \in 1..Len(all) |->
        IF all[i].id = target /\ index >= 0 /\ index < Len(all[i].messages)
        THEN [all[i] EXCEPT !.messages[index + 1].text = text]
        ELSE all[i]]

\* onDeleteSession's updater: the next collection, the next activeId and
\* whether newSession() was called
DeleteNoFallback(all, id, active, fresh, now) ==
    LET next == FilterOut(all, id) IN
    [sessions |-> next,
     activeId |-> IF id = active /\ next # <<>> THEN next[1].id ELSE active,
     used |-> FALSE]

DeleteKeepActive(all, id, active, fresh, now) ==
    LET next == FilterOut(all, id) IN
    IF next = <<>>
    THEN [sessions |-> <<newSession(fresh, now)>>, activeId |-> fresh,
          used |-> TRUE]
    ELSE [sessions |-> next, activeId |-> active, used |-> FALSE]

DeleteResult(all, id, active, fresh, now) ==
    LET next == FilterOut(all, id) IN
    IF id = active
    THEN IF next # <<>>
         THEN [sessions |-> next, activeId |-> next[1].id, used |-> FALSE]
         ELSE [sessions |-> <<newSession(fresh, now)>>, activeId |-> fresh,
               used |-> TRUE]
    ELSE IF next # <<>>
         THEN [sessions |-> next, activeId |-> active, used |-> FALSE]
         ELSE [sessions |-> <<newSession(fresh, now)>>, activeId |-> active,
               used |-> TRUE]

\* !text, text the trimmed input: true of the empty string only
IsBlankNever(text) == FALSE
IsBlank(text) == text = <<>>

(* ------------------------------ Send Guard ---------------------------- *)
IsDuplicateNever(last, text, now) == FALSE

\* lastSendRef.current.text === text && now - lastSendRef.current.t < 1200
IsDuplicate(last, text, now) == last.text = text /\ now - last.t < DEDUPE_MS

\* if (sendingRef.current) return;
GuardHeldNever(flag) == FALSE
GuardHeld(flag) == flag

(* ----------------------------- persistence ---------------------------- *)
\* the properties JSON.stringify writes for a session
SessionFields == {"id", "title", "messages", "createdAt"}

\* what localStorage holds under SESS_KEY: nothing, the empty string, a text
\* that is no JSON, the JSON of a value that is no list, or the JSON of a
\* list; items are the objects of the list, each with the set of properties
\* written for it and their values
Absent == [kind |-> "absent", items |-> <<>>]
EmptyText == [kind |-> "empty", items |-> <<>>]
Unparsable == [kind |-> "unparsable", items |-> <<>>]
JsonNoList == [kind |-> "no_list", items |-> <<>>]
JsonList(items) == [kind |-> "list", items |-> items]

\* JSON.stringify(sessions): every property of every session is written
JsonStringify(all) ==
    JsonList([i \in 1..Len(all) |-> [has |-> SessionFields, obj |-> all[i]]])

\* a property a parsed object lacks reads as undefined
UNDEFINED_ID == 0
UNDEFINED_TITLE == <<"undefined">>

\* the objects JSON.parse gives back for the items of a list
ParseItems(items) ==
    [i \in 1..Len(items) |->
        [id |-> IF "id" \in items[i].has THEN items[i].obj.id
                ELSE UNDEFINED_ID,
         title |-> IF "title" \in items[i].has THEN items[i].obj.title
                   ELSE UNDEFINED_TITLE,
         messages |-> items[i].obj.messages,
         createdAt |-> items[i].obj.createdAt]]

\* useEffect(() => localStorage.setItem(SESS_KEY, JSON.stringify(sessions)),
\* [sessions]): runs after every render in which sessions changed
persistEffectOnCount(stored, all) ==
    IF Len(stored.items) = Len(all) THEN stored ELSE JsonStringify(all)

persistEffect(stored, all) == JsonStringify(all)

(* --------------------------- initial state ---------------------------- *)
\* what the user types: whitespace only, and a text that trim shortens
Inputs == {<<" ">>, <<"a", " ">>}

StoreInit ==
    /\ sessions = <<newSession(1, START_MS)>>
    /\ activeId = 1
    /\ input = <<>>
    /\ busy = FALSE
    /\ uploading = FALSE
    /\ sendingRef = FALSE
    /\ lastSendRef = [text |-> <<>>, t |-> 0]
    /\ nextId = 2
    /\ clock = START_MS
    /\ runs = <<>>
    /\ uploads = <<>>
    /\ persisted = persistEffect(Absent, sessions)
    /\ guardOwner = 0
    /\ lastAccepted = [text |-> <<>>, t |-> 0]
    /\ lastOp = "init"

MdIdle == mdIn = <<>> /\ mdOut = <<>> /\ mdDone = FALSE
AnIdle == anIn = <<>> /\ anOut = <<>> /\ anDone = FALSE

\* no http call is being made
NoCall == [pc |-> "idle"]
CallIdle == call = NoCall

Init == StoreInit /\ MdIdle /\ AnIdle /\ CallIdle

(* ------------------------------ handlers ------------------------------ *)
\* textarea onChange: setInput(e.target.value)
OnChange(v) ==
    /\ input' = v
    /\ lastOp' = "other"
    /\ UNCHANGED <<sessions, persisted, activeId, busy, uploading, sendingRef,
                   lastSendRef, nextId, clock, runs, uploads,
                   guardOwner, lastAccepted, mdVars, anVars, call>>

\* Date.now() advances
Tick ==
    /\ clock + TickMs <= START_MS + MaxTicks * TickMs
    /\ clock' = clock + TickMs
    /\ lastOp' = "other"
    /\ UNCHANGED <<sessions, persisted, activeId, input, busy, uploading, sendingRef,
                   lastSendRef, nextId, runs, uploads, guardOwner, lastAccepted, mdVars, anVars, call>>

\* onNewChat, with at most `limit` ids handed out by crypto.randomUUID()
NewChat(limit) ==
    /\ nextId <= limit
    /\ sessions' = <<newSession(nextId, clock)>> \o sessions
    /\ activeId' = nextId
    /\ nextId' = nextId + 1
    /\ input' = <<>>
    /\ persisted' = persistEffect(persisted, sessions')
    /\ lastOp' = "other"
    /\ UNCHANGED <<busy, uploading, sendingRef, lastSendRef, clock,
                   runs, uploads, guardOwner, lastAccepted, mdVars, anVars, call>>

onNewChat == NewChat(MaxIds)

\* the ids setActiveId can be called with from the history list:
\* sessions.map((s) => ... onClick: setActiveId(s.id))
SelectableAny(all) == 1..MaxIds
Selectable(all) == Ids(all)

\* history item onClick: setActiveId(s.id), s a session of the collection
onSelectSession(id) ==
    /\ id \in Selectable(sessions)
    /\ activeId' = id
    /\ lastOp' = "other"
    /\ UNCHANGED <<sessions, persisted, input, busy, uploading, sendingRef, lastSendRef,
                   nextId, clock, runs, uploads, guardOwner, lastAccepted, mdVars, anVars, call>>

onDeleteSession(id) ==
    /\ id \in Ids(sessions)
    /\ LET res == DeleteResult(sessions, id, activeId, nextId, clock) IN
        /\ res.used => nextId <= MaxIds
        /\ sessions' = res.sessions
        /\ activeId' = res.activeId
        /\ nextId' = IF res.used THEN nextId + 1 ELSE nextId
    /\ persisted' = persistEffect(persisted, sessions')
    /\ lastOp' = IF Len(sessions) = 1 THEN "delete_last"
                 ELSE IF id = activeId THEN "delete_active"
                 ELSE "delete_other"
    /\ UNCHANGED <<input, busy, uploading, sendingRef, lastSendRef, clock,
                   runs, uploads, guardOwner, lastAccepted, mdVars, anVars, call>>

(* ---------------------------- Send Pipeline --------------------------- *)
\* "Server error: " + (e?.message || "")
ErrorText(e) == SERVER_ERROR \o e.message

\* acc += chunk
AccumulateReplace(acc, chunk) == chunk
Accumulate(acc, chunk) == acc \o chunk

\* the reply the backend streams; chatStream hands it to the chunk callback
\* in order, cut into fragments of any length (empty ones included), and
\* may end the stream after any of them
REPLY == <<"x", "y">>

RECURSIVE Concat(_)
Concat(fragments) ==
    IF fragments = <<>> THEN <<>>
    ELSE Head(fragments) \o Concat(Tail(fragments))

\* the fragments chatStream can deliver next, given those delivered so far
NextFragments(delivered) ==
    LET pos == Len(Concat(delivered)) IN
    {SubSeq(REPLY, pos + 1, pos + k) : k \in 0..(Len(REPLY) - pos)}

\* the name of the value thrown for an outcome: an aborted fetch rejects
\* with an AbortError (api.js withTimeout, health)
ErrorName(kind) == IF kind = "Failed" THEN "Error" ELSE "AbortError"

\* what chatStream rejects with: the outcome, and the name and message of
\* the thrown value (send reads nothing but the message)
TransportErrors ==
    {[kind |-> k, name |-> ErrorName(k), message |-> m] :
        k \in {"Failed", "TimedOut", "Cancelled"}, m \in {<<>>, <<"m">>}}

NoChange ==
    UNCHANGED <<sessions, persisted, activeId, input, busy, uploading, sendingRef,
                lastSendRef, nextId, clock, runs, uploads, guardOwner, lastAccepted, mdVars, anVars, call>>

\* send(): if (!text || !active) return;
sendEmpty ==
    /\ IsBlank(Trim(input)) \/ ~HasSession(sessions, activeId)
    /\ lastOp' = "send_empty"
    /\ NoChange

\* send(): the de-dupe return
sendDuplicate ==
    /\ ~IsBlank(Trim(input)) /\ HasSession(sessions, activeId)
    /\ IsDuplicate(lastSendRef, Trim(input), clock)
    /\ lastOp' = "send_duplicate"
    /\ NoChange

\* send(): lastSendRef is written, then if (sendingRef.current) return;
sendInFlight ==
    /\ ~IsBlank(Trim(input)) /\ HasSession(sessions, activeId)
    /\ ~IsDuplicate(lastSendRef, Trim(input), clock)
    /\ GuardHeld(sendingRef)
    /\ lastSendRef' = [text |-> Trim(input), t |-> clock]
    /\ lastOp' = "send_inflight"
    /\ UNCHANGED <<sessions, persisted, activeId, input, busy, uploading, sendingRef,
                   nextId, clock, runs, uploads, guardOwner, lastAccepted, mdVars, anVars, call>>

\* send(): accepted; runs up to the await of chatStream
sendAccepted ==
    LET text == Trim(input)
        withUser == appendUserMessage(sessions, activeId, text)
        withBubble == appendAssistantMessage(withUser, activeId, <<>>)
    IN
    /\ ~IsBlank(text) /\ HasSession(sessions, activeId)
    /\ ~IsDuplicate(lastSendRef, text, clock)
    /\ ~GuardHeld(sendingRef)
    /\ Len(runs) < MaxSends
    /\ Len(runs) + Len(uploads) < MaxOps
    /\ lastSendRef' = [text |-> text, t |-> clock]
    /\ sendingRef' = TRUE
    /\ input' = <<>>
    /\ busy' = TRUE
    /\ sessions' = withBubble
    /\ runs' = Append(runs,
            [target |-> activeId,
             assistantIndex |-> Len(Find(withBubble, activeId).messages) - 1,
             acc |-> <<>>, delivered |-> <<>>, text |-> text,
             pc |-> "streaming", released |-> 0])
    /\ guardOwner' = Len(runs) + 1
    /\ lastAccepted' = [text |-> text, t |-> clock]
    /\ persisted' = persistEffect(persisted, sessions')
    /\ lastOp' = "send_accepted"
    /\ UNCHANGED <<activeId, uploading, nextId, clock, uploads, mdVars, anVars, call>>

send == sendEmpty \/ sendDuplicate \/ sendInFlight \/ sendAccepted

\* the chunk callback of send
onChunk(r, chunk) ==
    /\ r \in 1..Len(runs)
    /\ runs[r].pc = "streaming"
    /\ Len(runs[r].delivered) < MaxFrags
    /\ LET acc == IF chunk = <<>> THEN runs[r].acc
                  ELSE Accumulate(runs[r].acc, chunk)
       IN
        /\ runs' = [runs EXCEPT ![r].delivered = Append(@, chunk),
                                ![r].acc = acc]
        /\ sessions' = IF chunk = <<>> THEN sessions
                       ELSE SetAssistantText(sessions,
                                SessionTarget(runs[r].target, activeId),
                                runs[r].assistantIndex, acc)
    /\ persisted' = persistEffect(persisted, sessions')
    /\ lastOp' = "other"
    /\ UNCHANGED <<activeId, input, busy, uploading, sendingRef, lastSendRef,
                   nextId, clock, uploads, guardOwner, lastAccepted, mdVars, anVars, call>>

\* the finally block of send: the value of sendingRef.current after it
ReleaseKeep(flag) == flag
Release(flag) == FALSE

\* finally { setBusy(false); sendingRef.current = false; }
\* The locals of the run (acc, the callback) end with it.
Finally(r) ==
    /\ busy' = FALSE
    /\ sendingRef' = Release(sendingRef)
    /\ guardOwner' = IF sendingRef' THEN guardOwner ELSE 0
    /\ runs' = [runs EXCEPT ![r].pc = "done", ![r].acc = <<>>,
                            ![r].delivered = <<>>,
                            ![r].released = IF sendingRef' THEN @ ELSE @ + 1]

\* await chatStream(...) returns
onStreamEnd(r) ==
    /\ r \in 1..Len(runs)
    /\ runs[r].pc = "streaming"
    /\ Finally(r)
    /\ lastOp' = "stream_end"
    /\ UNCHANGED <<sessions, persisted, activeId, input, uploading, lastSendRef, nextId,
                   clock, uploads, lastAccepted, mdVars, anVars, call>>

\* await chatStream(...) throws e: the catch block, then finally
onStreamError(r, e) ==
    /\ r \in 1..Len(runs)
    /\ runs[r].pc = "streaming"
    /\ sessions' = SetAssistantAt(sessions,
                        SessionTarget(runs[r].target, activeId),
                        runs[r].assistantIndex,
                        [role |-> "assistant", text |-> ErrorText(e)])
    /\ Finally(r)
    /\ persisted' = persistEffect(persisted, sessions')
    /\ lastOp' = e.kind
    /\ UNCHANGED <<activeId, input, uploading, lastSendRef, nextId, clock,
                   uploads, lastAccepted, mdVars, anVars, call>>

(* ------------------------- Upload/Analysis flow ----------------------- *)
\* bound: findings of one analysis report
MaxFindings == 2

FileNames == {<<"f">>}

\* what uploadImage resolves with, res.json(): an object with risk_level,
\* score and maybe a findings list; or null; or an object whose findings
\* is no list.  kind tells the three apart.
Report(risk, score, has, findings) ==
    [kind |-> "object", risk_level |-> risk, score |-> score,
     hasFindings |-> has, findings |-> findings]
NullReport ==
    [kind |-> "null", risk_level |-> "", score |-> 0,
     hasFindings |-> FALSE, findings |-> <<>>]
BadFindingsReport ==
    [kind |-> "bad_findings", risk_level |-> "high", score |-> 87,
     hasFindings |-> TRUE, findings |-> <<>>]

Reports ==
    {Report("high", 87, TRUE,
            <<[rule |-> "url-mismatch", detail |-> "domain spoof"]>>),
     NullReport}

Findings == [rule : {"url-mismatch", "typo"}, detail : {"", "domain spoof"}]
FindingLists == UNION {[1..n -> Findings] : n \in 0..MaxFindings}

\* every report shape the formatting is applied to
AllReports ==
    {Report(risk, score, TRUE, fs) :
        risk \in {"high", "low"}, score \in {0, 87}, fs \in FindingLists}
    \cup {Report(risk, score, FALSE, <<>>) :
        risk \in {"high", "low"}, score \in {0, 87}}
    \cup {NullReport, BadFindingsReport}

\* what uploadImage rejects with (the message of the thrown Error)
UploadErrors == {<<"Upload failed: 500">>}

\* the message of the TypeError raised by report.risk_level on null, or by
\* findings.map on a value that is no list
REPORT_TYPE_ERROR == <<"TypeError">>

\* `${i + 1}. ${f.rule}${f.detail ? ` — ${f.detail}` : ""}`
\* (the dash between rule and detail is written " - ")
FindingLineAlwaysDetail(f, i) ==
    <<ToString(i), ". ", f.rule, " - ", f.detail>>

FindingLine(f, i) ==
    <<ToString(i), ". ", f.rule>>
    \o (IF f.detail # "" THEN <<" - ", f.detail>> ELSE <<>>)

\* the finding lines, each after the "\n" of lines.join("\n")
RECURSIVE FindingLines(_, _)
FindingLines(findings, i) ==
    IF i > Len(findings) THEN <<>>
    ELSE <<"\n">> \o FindingLine(findings[i], i)
         \o FindingLines(findings, i + 1)

\* the lines of the report, joined; report.findings || []
FormatReport(report) ==
    <<"**Risk level:** ", report.risk_level, " (score ",
      ToString(report.score), ")">>
    \o FindingLines(IF report.hasFindings THEN report.findings ELSE <<>>, 1)

\* onPickFile up to the await of uploadImage
onPickFile(name) ==
    /\ HasSession(sessions, activeId)
    /\ Len(uploads) < MaxUploads
    /\ Len(runs) + Len(uploads) < MaxOps
    /\ uploading' = TRUE
    /\ sessions' = appendUserMessage(sessions, activeId,
                        UPLOADED_PREFIX \o name \o <<")">>)
    /\ uploads' = Append(uploads,
                    [target |-> activeId, pc |-> "waiting", replies |-> 0,
                     report |-> NullReport])
    /\ persisted' = persistEffect(persisted, sessions')
    /\ lastOp' = "other"
    /\ UNCHANGED <<activeId, input, busy, sendingRef, lastSendRef, nextId,
                   clock, runs, guardOwner, lastAccepted, mdVars, anVars, call>>

\* catch (err): appendAssistantMessage(`Upload error: ${err?.message || String(err)}`)
UploadCatchSilent(all, target, message) == all

UploadCatch(all, target, message) ==
    appendAssistantMessage(all, target, UPLOAD_ERROR \o message)

\* uploadImage resolved: the report is formatted and appended; a report
\* that cannot be formatted raises inside the try block; then
\* finally { setUploading(false); ... }
onUploadReport(u, report) ==
    /\ u \in 1..Len(uploads)
    /\ uploads[u].pc = "waiting"
    /\ sessions' =
        IF report.kind = "object"
        THEN appendAssistantMessage(sessions,
                SessionTarget(uploads[u].target, activeId),
                FormatReport(report))
        ELSE UploadCatch(sessions,
                SessionTarget(uploads[u].target, activeId),
                REPORT_TYPE_ERROR)
    /\ uploading' = FALSE
    /\ uploads' = [uploads EXCEPT ![u].pc = "done", ![u].replies = @ + 1,
                                  ![u].report = report]
    /\ persisted' = persistEffect(persisted, sessions')
    /\ lastOp' = "other"
    /\ UNCHANGED <<activeId, input, busy, sendingRef, lastSendRef, nextId,
                   clock, runs, guardOwner, lastAccepted, mdVars, anVars, call>>

\* uploadImage rejected
onUploadError(u, message) ==
    /\ u \in 1..Len(uploads)
    /\ uploads[u].pc = "waiting"
    /\ sessions' = UploadCatch(sessions,
                        SessionTarget(uploads[u].target, activeId), message)
    /\ uploading' = FALSE
    /\ uploads' = [uploads EXCEPT ![u].pc = "done", ![u].replies = @ + 1]
    /\ persisted' = persistEffect(persisted, sessions')
    /\ lastOp' = "other"
    /\ UNCHANGED <<activeId, input, busy, sendingRef, lastSendRef, nextId,
                   clock, runs, guardOwner, lastAccepted, mdVars, anVars, call>>

(* ---------------------------- specification --------------------------- *)
StreamStep ==
    \E r \in 1..MaxSends :
        \/ \E chunk \in NextFragments(
                    IF r <= Len(runs) THEN runs[r].delivered ELSE <<>>) :
                onChunk(r, chunk)
        \/ onStreamEnd(r)
        \/ \E e \in TransportErrors : onStreamError(r, e)

UploadStep ==
    \E u \in 1..MaxUploads :
        \/ \E report \in Reports : onUploadReport(u, report)
        \/ \E message \in UploadErrors : onUploadError(u, message)

Typing(inputs) == \E v \in inputs : OnChange(v)

Handlers ==
    \/ Tick
    \/ onNewChat
    \/ \E id \in 1..MaxIds : onSelectSession(id)
    \/ \E id \in 1..MaxIds : onDeleteSession(id)
    \/ send
    \/ StreamStep
    \/ \E name \in FileNames : onPickFile(name)
    \/ UploadStep

Next == Typing(Inputs) \/ Handlers

Spec == Init /\ [][Next]_vars

\* chatStream settles: the event loop runs every pending continuation
FairSpec == Spec /\ WF_vars(StreamStep)

\* uploadImage settles: its fetch is aborted after UPLOAD_TIMEOUT_MS
UploadFairSpec == Spec /\ WF_vars(UploadStep)

\* the upload flow alone, over every report
UploadStepAll ==
    \E u \in 1..MaxUploads :
        \/ \E report \in AllReports : onUploadReport(u, report)
        \/ \E message \in UploadErrors : onUploadError(u, message)

UploadNext ==
    \/ onNewChat
    \/ \E id \in 1..MaxIds : onSelectSession(id)
    \/ \E id \in 1..MaxIds : onDeleteSession(id)
    \/ \E name \in FileNames : onPickFile(name)
    \/ UploadStepAll

UploadSpec == Init /\ [][UploadNext]_vars

(* -------------------------- Sanitizing Renderer ----------------------- *)
\* s.replaceAll(c, rep), c one character
RECURSIVE ReplaceAll(_, _, _)
ReplaceAll(s, c, rep) ==
    IF s = <<>> THEN <<>>
    ELSE (IF Head(s) = c THEN rep ELSE <<Head(s)>>)
         \o ReplaceAll(Tail(s), c, rep)

AMP == <<"&", "a", "m", "p", ";">>
LT == <<"&", "l", "t", ";">>
GT == <<"&", "g", "t", ";">>
QUOT == <<"&", "q", "u", "o", "t", ";">>
APOS == <<"&", "#", "3", "9", ";">>

escapeHtmlKeepLt(s) ==
    ReplaceAll(ReplaceAll(ReplaceAll(ReplaceAll(s,
        "&", AMP), ">", GT), "\"", QUOT), "'", APOS)

escapeHtml(s) ==
    ReplaceAll(ReplaceAll(ReplaceAll(ReplaceAll(ReplaceAll(s,
        "&", AMP), "<", LT), ">", GT), "\"", QUOT), "'", APOS)

STRONG_OPEN == <<"<", "s", "t", "r", "o", "n", "g", ">">>
STRONG_CLOSE == <<"<", "/", "s", "t", "r", "o", "n", "g", ">">>
BR == <<"<", "b", "r", "/", ">">>

StarsAt(s, i) == i + 1 <= Len(s) /\ s[i] = "*" /\ s[i + 1] = "*"

\* the closing ** of /\*\*(.+?)\*\*/ for an opening ** at i: the least j with
\* ** at j and one or more characters, none a newline, between; 0 when the
\* pattern does not match at i
BoldClose(s, i) ==
    LET ends == {j \in (i + 3)..Len(s) :
                    /\ StarsAt(s, j)
                    /\ \A k \in (i + 2)..(j - 1) : s[k] # "\n"}
    IN IF ends = {} THEN 0
       ELSE CHOOSE j \in ends : \A k \in ends : j <= k

\* safe.replace(/\*\*(.+?)\*\*/g, "<strong>$1</strong>"), scanning from i
RECURSIVE BoldFrom(_, _)
BoldFrom(s, i) ==
    IF i > Len(s) THEN <<>>
    ELSE IF StarsAt(s, i) /\ BoldClose(s, i) # 0
         THEN STRONG_OPEN \o SubSeq(s, i + 2, BoldClose(s, i) - 1)
              \o STRONG_CLOSE \o BoldFrom(s, BoldClose(s, i) + 2)
         ELSE <<s[i]>> \o BoldFrom(s, i + 1)

mdLite(s) == ReplaceAll(BoldFrom(escapeHtml(s), 1), "\n", BR)

Alphabet == {"*", "\n", "<", ">", "&", "\"", "'", "a"}
Texts(n) == UNION {[1..k -> Alphabet] : k \in 0..n}

RenderInit ==
    /\ StoreInit
    /\ AnIdle
    /\ CallIdle
    /\ mdIn \in Texts(MaxLen)
    /\ mdOut = <<>>
    /\ mdDone = FALSE

\* a message is displayed: dangerouslySetInnerHTML={{ __html: mdLite(m.text) }}
Render ==
    /\ ~mdDone
    /\ mdOut' = mdLite(mdIn)
    /\ mdDone' = TRUE
    /\ UNCHANGED <<mdIn, storeVars, anVars, call>>

RenderSpec == RenderInit /\ [][Render]_vars

(* ----------------------- Annotation Post-processor -------------------- *)
\* bound: pieces a text given to maybeAttachNote is built from
MaxPieces == 3

\* JavaScript values: a string (a sequence of characters), undefined, null
JsString(v) == [type |-> "string", val |-> v]
JsUndefined == [type |-> "undefined", val |-> <<>>]
JsNull == [type |-> "null", val |-> <<>>]

\* the result of a call: the value returned, or a TypeError thrown
Returned(v) == [raised |-> FALSE, val |-> v]
Thrown == [raised |-> TRUE, val |-> <<>>]

SENSITIVE_INTENTS ==
    {"vishing_call", "customer_phishing", "employee_phishing",
     "urgent_phishing", "wire_fraud", "sim_swapping",
     "update_personal_info_requests", "identity_theft_breach",
     "password_breach"}

\* the markers the two regular expressions of stripBackendNote look for;
\* "[my]" is the Burmese word of the Burmese marker
EN_MARK == <<"*", "*", "N", "o", "t", "e", ":", "*", "*">>
MY_MARK == <<"*", "*", "[my]", ":", "*", "*">>

\* NOTE_EN, NOTE_MY: the marker, then the sentences of the note (one token)
NOTE_EN == EN_MARK \o <<" ", "[English note]">>
NOTE_MY == MY_MARK \o <<" ", "[Burmese note]">>

\* the i flag: letters are compared without regard to case
Fold(c) ==
    CASE c = "N" -> "n" [] c = "O" -> "o" [] c = "T" -> "t" [] c = "E" -> "e"
      [] OTHER -> c

MatchesAt(s, i, mark) ==
    /\ i + Len(mark) - 1 <= Len(s)
    /\ \A k \in 1..Len(mark) : Fold(s[i + k - 1]) = Fold(mark[k])

\* s.replace(/<mark>[\s\S]*$/i, ""): the first match and all after it go
StripFrom(s, mark) ==
    LET hits == {i \in 1..Len(s) : MatchesAt(s, i, mark)} IN
    IF hits = {} THEN s
    ELSE SubSeq(s, 1, (CHOOSE i \in hits : \A j \in hits : i <= j) - 1)

\* the default parameter md = "" replaces undefined only
OrEmpty(md) == IF md.type = "undefined" THEN <<>> ELSE md.val

stripBackendNoteKeep(md) ==
    IF md.type = "null" THEN Thrown ELSE Returned(Trim(OrEmpty(md)))

\* null.replace raises a TypeError
stripBackendNote(md) ==
    IF md.type = "null" THEN Thrown
    ELSE Returned(Trim(StripFrom(StripFrom(OrEmpty(md), EN_MARK), MY_MARK)))

\* lang = "en" by default; lang === "my"
IsMy(lang) == lang.type = "string" /\ lang.val = "my"

\* SENSITIVE_INTENTS.has(intent)
IsSensitive(intent) == intent.type = "string" /\ intent.val \in SENSITIVE_INTENTS

maybeAttachNote(text, intent, lang) ==
    LET clean == stripBackendNote(text) IN
    IF clean.raised THEN Thrown
    ELSE IF IsSensitive(intent)
         THEN Returned(clean.val \o <<"\n", "\n">>
                       \o (IF IsMy(lang) THEN NOTE_MY ELSE NOTE_EN))
         ELSE clean

\* the pieces the texts are built from: the markers in two letter cases, a
\* marker cut short, whole notes, and ordinary characters
Pieces ==
    {EN_MARK, <<"*", "*", "N", "O", "T", "E", ":", "*", "*">>, MY_MARK,
     <<"*", "*", "N", "o", "t", "e", ":">>, NOTE_EN, NOTE_MY,
     <<"a">>, <<" ">>, <<"\n">>, <<"*">>}

RECURSIVE Built(_)
Built(n) ==
    IF n = 0 THEN {<<>>}
    ELSE Built(n - 1) \cup {t \o p : t \in Built(n - 1), p \in Pieces}

NoteTexts == {JsString(t) : t \in Built(MaxPieces)} \cup {JsUndefined, JsNull}
NoteIntents ==
    {JsString("wire_fraud"), JsString("greeting"), JsUndefined, JsNull}
NoteLangs == {JsString("en"), JsString("my"), JsString("fr"), JsUndefined, JsNull}

AnnotateInit ==
    /\ StoreInit
    /\ MdIdle
    /\ CallIdle
    /\ anIn \in [text : NoteTexts, intent : NoteIntents, lang : NoteLangs]
    /\ anOut = <<>>
    /\ anDone = FALSE

\* maybeAttachNote is applied, and applied again to what it returned
Annotate ==
    /\ ~anDone
    /\ LET once == maybeAttachNote(anIn.text, anIn.intent, anIn.lang) IN
        anOut' = [once |-> once,
                  twice |-> IF once.raised THEN Thrown
                            ELSE maybeAttachNote(JsString(once.val),
                                                 anIn.intent, anIn.lang)]
    /\ anDone' = TRUE
    /\ UNCHANGED <<anIn, storeVars, mdVars, call>>

AnnotateSpec == AnnotateInit /\ [][Annotate]_vars

(* ------------------------ unary Send Pipeline ------------------------- *)
\* The client of part_003 sends with chat(), which resolves with one response
\* object, and releases the guard in a timer callback.

\* a || b for a string a; a ?? b
ReplyOrEmpty(reply) == IF reply.type = "string" THEN reply ELSE JsString(<<>>)
LangOrEn(lang) ==
    IF lang.type = "string" /\ lang.val # "" THEN lang ELSE JsString("en")
Nullish(a, b) == IF a.type \in {"undefined", "null"} THEN b ELSE a

\* const intent = resp?.reasoning?.intent ?? resp?.intent ?? null;
ReplyIntent(resp) == Nullish(resp.reasoning, Nullish(resp.intent, JsNull))

\* the intent and language the backend classified the streamed reply with
REPLY_INTENT == JsString("wire_fraud")
REPLY_LANG == JsString("en")

UnaryFinalTextRaw(resp) == ReplyOrEmpty(resp.reply).val

\* maybeAttachNote(resp?.reply || "", intent, replyLang)
UnaryFinalText(resp) ==
    maybeAttachNote(ReplyOrEmpty(resp.reply), ReplyIntent(resp),
                    LangOrEn(resp.language)).val

\* what chat() resolves with: reply, intent, language, reasoning.intent
Responses ==
    [reply : {JsString(<<"H", "i">>),
              JsString(<<"H", "i", "\n">> \o NOTE_MY), JsUndefined},
     intent : {JsString("wire_fraud"), JsString("greeting"), JsUndefined},
     language : {JsString("en"), JsString("my"), JsUndefined},
     reasoning : {JsUndefined, JsString("password_breach")}]

NoResponse ==
    [reply |-> JsUndefined, intent |-> JsUndefined, language |-> JsUndefined,
     reasoning |-> JsUndefined]

\* send() of part_003: accepted; runs up to the await of chat
unaryAccepted ==
    LET text == Trim(input) IN
    /\ ~IsBlank(text) /\ HasSession(sessions, activeId)
    /\ ~IsDuplicate(lastSendRef, text, clock)
    /\ ~GuardHeld(sendingRef)
    /\ Len(runs) < MaxSends
    /\ lastSendRef' = [text |-> text, t |-> clock]
    /\ sendingRef' = TRUE
    /\ input' = <<>>
    /\ busy' = TRUE
    /\ sessions' = appendUserMessage(sessions, activeId, text)
    /\ runs' = Append(runs, [target |-> activeId, text |-> text,
                             pc |-> "waiting", released |-> 0,
                             resp |-> NoResponse])
    /\ guardOwner' = Len(runs) + 1
    /\ lastAccepted' = [text |-> text, t |-> clock]
    /\ persisted' = persistEffect(persisted, sessions')
    /\ lastOp' = "send_accepted"
    /\ UNCHANGED <<activeId, uploading, nextId, clock, uploads, mdVars, anVars, call>>

\* await chat(...) returns resp; then finally { setBusy(false); setTimeout }
onReply(r, resp) ==
    /\ r \in 1..Len(runs)
    /\ runs[r].pc = "waiting"
    /\ sessions' = appendAssistantMessage(sessions,
                        SessionTarget(runs[r].target, activeId),
                        UnaryFinalText(resp))
    /\ busy' = FALSE
    /\ runs' = [runs EXCEPT ![r].pc = "releasing", ![r].resp = resp]
    /\ persisted' = persistEffect(persisted, sessions')
    /\ lastOp' = "reply"
    /\ UNCHANGED <<activeId, input, uploading, sendingRef, lastSendRef, nextId,
                   clock, uploads, guardOwner, lastAccepted, mdVars, anVars, call>>

\* await chat(...) throws e: the catch block, then finally
onReplyError(r, e) ==
    /\ r \in 1..Len(runs)
    /\ runs[r].pc = "waiting"
    /\ sessions' = appendAssistantMessage(sessions,
                        SessionTarget(runs[r].target, activeId),
                        ErrorText(e))
    /\ busy' = FALSE
    /\ runs' = [runs EXCEPT ![r].pc = "releasing"]
    /\ persisted' = persistEffect(persisted, sessions')
    /\ lastOp' = e.kind
    /\ UNCHANGED <<activeId, input, uploading, sendingRef, lastSendRef, nextId,
                   clock, uploads, guardOwner, lastAccepted, mdVars, anVars, call>>

\* setTimeout(() => { sendingRef.current = false; }, 0)
onReleaseTimer(r) ==
    /\ r \in 1..Len(runs)
    /\ runs[r].pc = "releasing"
    /\ sendingRef' = Release(sendingRef)
    /\ guardOwner' = IF sendingRef' THEN guardOwner ELSE 0
    /\ runs' = [runs EXCEPT ![r].pc = "done", ![r].resp = NoResponse,
                            ![r].released = IF sendingRef' THEN @ ELSE @ + 1]
    /\ lastOp' = "other"
    /\ UNCHANGED <<sessions, persisted, activeId, input, busy, uploading, lastSendRef,
                   nextId, clock, uploads, lastAccepted, mdVars, anVars, call>>

UnaryStep ==
    \E r \in 1..MaxSends :
        \/ \E resp \in Responses : onReply(r, resp)
        \/ \E e \in TransportErrors : onReplyError(r, e)
        \/ onReleaseTimer(r)

UnaryNext ==
    \/ Typing(Inputs)
    \/ Tick
    \/ onNewChat
    \/ \E id \in 1..MaxIds : onSelectSession(id)
    \/ \E id \in 1..MaxIds : onDeleteSession(id)
    \/ sendEmpty
    \/ sendDuplicate
    \/ sendInFlight
    \/ unaryAccepted
    \/ UnaryStep

UnarySpec == Init /\ [][UnaryNext]_vars

(* ------------------------------- startup ------------------------------ *)
\* the objects a stored list is made of: a default session with id 1 or 2,
\* written with or without its id, title and messages
StoredItems ==
    {[has |-> SessionFields \ lacks, obj |-> newSession(id, START_MS)] :
        lacks \in SUBSET {"id", "title", "messages"}, id \in 1..MaxIds}

\* the stored lists: none, one or two objects (messages can be lacking in
\* the first object only: that is the one the first render reads)
StoredLists ==
    {<<>>} \cup {<<a>> : a \in StoredItems}
    \cup {<<a, b>> : a \in StoredItems,
                     b \in {x \in StoredItems : "messages" \in x.has}}

StoredContents ==
    {Absent, EmptyText, Unparsable, JsonNoList}
    \cup {JsonList(items) : items \in StoredLists}

\* the page is loaded: nothing is mounted yet
StartupInit ==
    /\ sessions = <<>>
    /\ activeId = UNDEFINED_ID
    /\ input = <<>>
    /\ busy = FALSE
    /\ uploading = FALSE
    /\ sendingRef = FALSE
    /\ lastSendRef = [text |-> <<>>, t |-> 0]
    /\ nextId = MaxIds + 1
    /\ clock = START_MS
    /\ runs = <<>>
    /\ uploads = <<>>
    /\ persisted \in StoredContents
    /\ guardOwner = 0
    /\ lastAccepted = [text |-> <<>>, t |-> 0]
    /\ lastOp = "boot"
    /\ MdIdle
    /\ CallIdle
    /\ AnIdle

\* what the initializers and the first render raise on:
\* JSON.parse(saved) on a text that is no JSON; sessions[0].id when the
\* parsed value has no first element; active.messages.map when the first
\* object has no messages
StartupRaises(stored) ==
    \/ stored.kind \in {"unparsable", "no_list"}
    \/ stored.kind = "list" /\ stored.items = <<>>
    \/ stored.kind = "list" /\ stored.items # <<>>
        /\ "messages" \notin stored.items[1].has

\* saved ? JSON.parse(saved) : [newSession()]
InitialSessions(stored, fresh, now) ==
    IF stored.kind \in {"absent", "empty"} THEN <<newSession(fresh, now)>>
    ELSE ParseItems(stored.items)

\* the first render of App: the useState initializers of sessions and
\* activeId, the render, the persist effect
Initialize ==
    /\ lastOp = "boot"
    /\ IF StartupRaises(persisted)
       THEN /\ lastOp' = "init_failed"
            /\ UNCHANGED <<sessions, activeId, nextId, persisted>>
       ELSE /\ sessions' = InitialSessions(persisted, nextId, clock)
            /\ activeId' = sessions'[1].id
            /\ nextId' = nextId + 1
            /\ persisted' = persistEffect(persisted, sessions')
            /\ lastOp' = "init"
    /\ UNCHANGED <<input, busy, uploading, sendingRef, lastSendRef, clock,
                   runs, uploads, guardOwner, lastAccepted, mdVars, anVars, call>>

StartupSpec == StartupInit /\ [][Initialize]_vars

(* ------------------------------- titles ------------------------------- *)
\* texts typed where titles matter: the default title itself, a short text
\* and a text longer than TITLE_MAX
LONG_TEXT == [i \in 1..(TITLE_MAX + 1) |-> "x"]
TitleInputs == {NEW_CHAT, <<"a", " ">>, LONG_TEXT}

TitleNext ==
    \/ Typing(TitleInputs)
    \/ send
    \/ StreamStep
    \/ \E name \in FileNames : onPickFile(name)
    \/ UploadStep

TitleSpec == Init /\ [][TitleNext]_vars

(* ------------------------------ deletion ------------------------------ *)
\* bound: sessions in the history list when a deletion is requested
MaxListed == 4

\* the history lists: up to MaxListed sessions made by new chat, in any
\* order of their ids
SessionLists ==
    {[i \in DOMAIN ids |-> newSession(ids[i], START_MS)] :
        ids \in {f \in UNION {[1..n -> 1..MaxListed] : n \in 1..MaxListed} :
                    \A a, b \in DOMAIN f : a # b => f[a] # f[b]}}

DeleteInit ==
    /\ sessions \in SessionLists
    /\ activeId \in Ids(sessions)
    /\ input = <<>>
    /\ busy = FALSE
    /\ uploading = FALSE
    /\ sendingRef = FALSE
    /\ lastSendRef = [text |-> <<>>, t |-> 0]
    /\ nextId = MaxListed + 1
    /\ clock = START_MS
    /\ runs = <<>>
    /\ uploads = <<>>
    /\ persisted = persistEffect(Absent, sessions)
    /\ guardOwner = 0
    /\ lastAccepted = [text |-> <<>>, t |-> 0]
    /\ lastOp = "init"
    /\ MdIdle
    /\ CallIdle
    /\ AnIdle

DeleteNext == \E id \in 1..MaxListed : onDeleteSession(id)

DeleteSpec == DeleteInit /\ [][DeleteNext]_vars

(* ------------------------------ creation ------------------------------ *)
\* new chats, selections and deletions, up to MaxListed ids
CreateNext ==
    \/ Typing(Inputs)
    \/ NewChat(MaxListed)
    \/ \E id \in 1..MaxListed : onSelectSession(id)
    \/ \E id \in 1..MaxListed : onDeleteSession(id)
    \/ \E name \in FileNames : onPickFile(name)
    \/ UploadStep

CreateSpec == Init /\ [][CreateNext]_vars

(* --------------------------- unary transport -------------------------- *)
\* a JSON value that is a list of one object, as in detail: [{...}]
JsArray == [type |-> "array", val |-> <<>>]

\* a value used as a condition (a || b): the empty string, undefined and
\* null are falsy
Truthy(v) == (v.type = "string" /\ v.val # <<>>) \/ v.type = "array"
Or(a, b) == IF Truthy(a) THEN a ELSE b

\* a value inside a template literal: `${v}`
ToText(v) ==
    CASE v.type = "string" -> v.val
      [] v.type = "array" -> <<"[object Object]">>
      [] v.type = "null" -> <<"null">>
      [] OTHER -> <<"undefined">>

\* what JSON.parse(text) gives: a SyntaxError, null, or an object with or
\* without the properties detail and error
NotJson == [kind |-> "not_json", detail |-> JsUndefined, error |-> JsUndefined]
ParsedNull == [kind |-> "null", detail |-> JsUndefined, error |-> JsUndefined]
ParsedObject(detail, error) ==
    [kind |-> "object", detail |-> detail, error |-> error]
EmptyObject == ParsedObject(JsUndefined, JsUndefined)

\* response bodies: the text res.text() gives and what JSON.parse makes of it
Body(raw, parsed) == [raw |-> raw, parsed |-> parsed]
Bodies ==
    {Body(<<>>, NotJson),
     Body(<<"<html>">>, NotJson),
     Body(<<"null">>, ParsedNull),
     Body(<<"{reply:r}">>, EmptyObject),
     Body(<<"{detail:d}">>, ParsedObject(JsString(<<"d">>), JsUndefined)),
     Body(<<"{detail:}">>, ParsedObject(JsString(<<>>), JsUndefined)),
     Body(<<"{detail:[{}]}">>, ParsedObject(JsArray, JsUndefined)),
     Body(<<"{error:e}">>, ParsedObject(JsUndefined, JsString(<<"e">>)))}

\* responses: status, statusText (empty over HTTP/2) and body
HttpResponses ==
    [status : {200, 201, 404, 500}, statusText : {<<>>, <<"Status">>},
     body : Bodies]

\* res.ok
Ok(status) == 200 <= status /\ status <= 299

\* js?.detail, js?.error
DetailOf(parsed) == IF parsed.kind = "object" THEN parsed.detail ELSE JsUndefined
ErrorOf(parsed) == IF parsed.kind = "object" THEN parsed.error ELSE JsUndefined

\* let err = text || res.statusText;
\* try { err = JSON.parse(text)?.detail || err; } catch {}
ErrDetail(variant, res) ==
    LET err == Or(JsString(res.body.raw), JsString(res.statusText)) IN
    IF res.body.parsed.kind = "not_json" THEN err
    ELSE IF variant = "api" THEN Or(DetailOf(res.body.parsed), err)
    ELSE Or(DetailOf(res.body.parsed), Or(ErrorOf(res.body.parsed), err))

\* an exception: its name, its message and the part of the message after
\* the dash
HttpThrown(name, message, detail) ==
    [raised |-> TRUE, name |-> name, message |-> message, detail |-> detail]

\* new Error(`HTTP ${res.status} ${res.statusText} — ${err}`)
HttpError(res, err) ==
    HttpThrown("Error",
               <<"HTTP ", ToString(res.status), " ">> \o res.statusText
                    \o <<" - ">> \o ToText(err),
               ToText(err))

\* http, from the response on: what it returns or throws
HttpResult(variant, res) ==
    IF ~Ok(res.status) THEN HttpError(res, ErrDetail(variant, res))
    ELSE IF res.body.raw = <<>> THEN Returned(EmptyObject)
    ELSE IF res.body.parsed.kind = "not_json"
         THEN HttpThrown("SyntaxError", <<"Unexpected token">>, <<>>)
         ELSE Returned(res.body.parsed)

\* the two http functions: that of api.js and that of the earlier client
HttpVariants == {"api", "part_001"}

NoResponseYet == [status |-> 0, statusText |-> <<>>, body |-> Body(<<>>, NotJson)]

\* http(path, ...): withTimeout arms the timer, fetch is started
HttpStart(variant) ==
    /\ call.pc = "idle"
    /\ call' = [pc |-> "fetching", variant |-> variant, timer |-> "armed",
                cleared |-> 0, arrived |-> FALSE, res |-> NoResponseYet,
                out |-> Returned(EmptyObject)]
    /\ UNCHANGED <<storeVars, mdVars, anVars>>

\* the exit of http: finally { clear(); }
HttpExit(arrived, res, timer, out) ==
    call' = [call EXCEPT !.pc = "done", !.arrived = arrived, !.res = res,
                         !.timer = timer, !.cleared = @ + 1, !.out = out]

\* fetch resolves and res.text() gives the body
onHttpResponse(res) ==
    /\ call.pc = "fetching"
    /\ HttpExit(TRUE, res, "cleared", HttpResult(call.variant, res))
    /\ UNCHANGED <<storeVars, mdVars, anVars>>

\* the timer fires: controller.abort() makes fetch or res.text() reject
onHttpTimeout ==
    /\ call.pc = "fetching"
    /\ HttpExit(FALSE, NoResponseYet, "fired",
                HttpThrown("AbortError", <<"aborted">>, <<>>))
    /\ UNCHANGED <<storeVars, mdVars, anVars>>

\* fetch rejects: the network failed
onHttpNetworkError ==
    /\ call.pc = "fetching"
    /\ HttpExit(FALSE, NoResponseYet, "cleared",
                HttpThrown("TypeError", <<"Failed to fetch">>, <<>>))
    /\ UNCHANGED <<storeVars, mdVars, anVars>>

HttpNext ==
    \/ \E variant \in HttpVariants : HttpStart(variant)
    \/ \E res \in HttpResponses : onHttpResponse(res)
    \/ onHttpTimeout
    \/ onHttpNetworkError

HttpSpec == Init /\ [][HttpNext]_vars

(* ============================== properties ============================ *)
Streaming == {r \in 1..Len(runs) : runs[r].pc = "streaming"}
Finished == {r \in 1..Len(runs) : runs[r].pc = "done"}

TargetPresent(all, r) == HasSession(all, runs[r].target)

\* the assistant message send r reserved, in collection `all`
AssistantMessage(all, r) ==
    Find(all, runs[r].target).messages[runs[r].assistantIndex + 1]

IsFreshDefault(s) ==
    /\ s.title = NEW_CHAT
    /\ s.messages = <<[role |-> "assistant", text |-> GREETING]>>

SendOps == {"send_empty", "send_duplicate", "send_inflight", "send_accepted"}

\* C1: the session collection is never empty, and deleting the only
\* remaining session leaves exactly one session, a fresh default one: an id
\* no session had before, the title "New chat", only the seeded greeting.
C1_NeverEmpty ==
    /\ [](Len(sessions) >= 1)
    /\ [][lastOp' \in {"delete_last"} /\ Len(sessions) = 1 =>
            /\ Len(sessions') = 1
            /\ IsFreshDefault(sessions'[1])
            /\ sessions'[1].id >= nextId
            /\ sessions'[1].id \notin Ids(sessions)]_vars

C1_Witness ==
    /\ lastOp = "delete_last"
    /\ Len(sessions) = 1
    /\ sessions[1].id = 2
    /\ uploads # <<>>

\* C2: activeId is the id of exactly one session of the collection.
C2_ActiveNotDangling ==
    Cardinality({i \in 1..Len(sessions) : sessions[i].id = activeId}) = 1

C2_Witness ==
    /\ lastOp = "delete_active"
    /\ activeId \in Ids(sessions)

\* C4: at most one send pipeline run is in flight, and a send invoked while
\* one is in flight appends nothing and starts no run.
C4_OneInFlight ==
    /\ [](Cardinality(Streaming) <= 1)
    /\ [][Streaming # {} /\ lastOp' \in SendOps =>
            sessions' = sessions /\ runs' = runs]_vars

C4_Witness ==
    /\ lastOp = "send_inflight"
    /\ Streaming # {}
    /\ \E r \in Streaming : runs[r].delivered # <<>>

\* C6: while a streaming send is in flight, and when it completes, the text
\* of its assistant message is the concatenation, in order, of the fragments
\* delivered to it so far (empty fragments and no fragment included).
C6_Concatenation ==
    /\ [](\A r \in Streaming :
            TargetPresent(sessions, r) =>
                AssistantMessage(sessions, r).text = Concat(runs[r].delivered))
    /\ [][\A r \in Streaming :
            lastOp' = "stream_end" /\ runs'[r].pc = "done"
            /\ TargetPresent(sessions', r) =>
                AssistantMessage(sessions', r).text = Concat(runs[r].delivered)]_vars

C6_Witness ==
    /\ lastOp = "stream_end"
    /\ \E r \in Finished :
        /\ TargetPresent(sessions, r)
        /\ AssistantMessage(sessions, r).text = REPLY

\* C7: a step of a send (fragment, completion, error) changes no session
\* other than the one that was active when the send started, also after
\* that session was deleted or another one was made active.
C7_OnlyCapturedSession ==
    [][\A r \in Streaming :
        runs'[r] # runs[r] =>
            /\ Len(sessions') = Len(sessions)
            /\ \A i \in 1..Len(sessions) :
                sessions[i].id # runs[r].target => sessions'[i] = sessions[i]]_vars

C7_Witness ==
    \E r \in Streaming :
        /\ runs[r].target # activeId
        /\ TargetPresent(sessions, r)
        /\ Len(Find(sessions, activeId).messages) > runs[r].assistantIndex
        /\ runs[r].delivered # <<>>
        /\ AssistantMessage(sessions, r).text = REPLY

(* ------------------------------ renderer ------------------------------ *)
Tags == {STRONG_OPEN, STRONG_CLOSE, BR}
Entities == {AMP, LT, GT, QUOT, APOS}

StartsAt(out, p, piece) ==
    /\ p >= 1
    /\ p + Len(piece) - 1 <= Len(out)
    /\ SubSeq(out, p, p + Len(piece) - 1) = piece

SafeMarkup(out) ==
    \A p \in 1..Len(out) :
        /\ out[p] = "<" => \E tag \in Tags : StartsAt(out, p, tag)
        /\ out[p] = ">" =>
            \E tag \in Tags : StartsAt(out, p - Len(tag) + 1, tag)
        /\ out[p] = "&" => \E e \in Entities : StartsAt(out, p, e)

\* C10: the markup mdLite returns holds no "<" or ">" but those of the
\* inserted <strong>, </strong> and <br/> tags, and no "&" but the first
\* character of an entity.
C10_RenderSafe == mdDone => SafeMarkup(mdOut)

C10_Witness ==
    /\ mdDone
    /\ mdIn = <<"*", "*", "<", "*", "*">>
    /\ mdOut = STRONG_OPEN \o LT \o STRONG_CLOSE

(* ----------------------------- send guard ----------------------------- *)
\* C3: with no send in flight, a send is rejected as a duplicate only when
\* the last accepted send had the same text and was accepted less than the
\* window ago; so the same text submitted once the window has elapsed since
\* the last accepted send, with no send in flight, is appended again.
C3_DuplicateOnlyInWindow ==
    lastOp = "send_duplicate" /\ ~sendingRef =>
        /\ lastAccepted.text = Trim(input)
        /\ clock - lastAccepted.t < DEDUPE_MS

\* C3, first half: a submission within the window of an accepted send of
\* the same text appends nothing.
C3_OneAppendInWindow ==
    [][/\ lastOp' \in SendOps
       /\ lastAccepted.text = Trim(input)
       /\ clock - lastAccepted.t < DEDUPE_MS
       => sessions' = sessions /\ runs' = runs]_vars

\* C5: every accepted send releases the guard exactly once, when it ends,
\* whatever way it ends; the guard is released only by the run that holds
\* it; and a held guard is eventually released.
C5_ReleasedOnce ==
    /\ [](\A r \in 1..Len(runs) :
            /\ runs[r].released = (IF runs[r].pc = "done" THEN 1 ELSE 0)
            /\ runs[r].pc = "streaming" => sendingRef /\ guardOwner = r)
    /\ [][\A r \in 1..Len(runs) :
            runs'[r].released # runs[r].released =>
                sendingRef /\ ~sendingRef' /\ guardOwner = r]_vars
    /\ (sendingRef ~> ~sendingRef)

C5_Witness ==
    /\ lastOp = "Cancelled"
    /\ ~sendingRef
    /\ \E r \in Finished :
        runs[r].released = 1 /\ ~TargetPresent(sessions, r)

\* C8: no send has ended with its assistant message still empty: once the
\* guard is released the message holds the reply or an error string.
C8_NoEmptyBubble ==
    \A r \in Finished :
        TargetPresent(sessions, r) => AssistantMessage(sessions, r).text # <<>>

\* C8, the failure paths alone: a send ended by Failed, TimedOut or
\* Cancelled holds a non-empty error string.
C8_ErrorShown ==
    lastOp \in {"Failed", "TimedOut", "Cancelled"} =>
        LET r == Len(runs) IN
        TargetPresent(sessions, r) =>
            /\ AssistantMessage(sessions, r).role = "assistant"
            /\ AssistantMessage(sessions, r).text # <<>>
            /\ SubSeq(AssistantMessage(sessions, r).text, 1, 1) = SERVER_ERROR

\* the strings send produces for a transport failure
GenericFailureTexts ==
    {ErrorText(e) : e \in {x \in TransportErrors : x.kind = "Failed"}}

\* C9: the string shown for a timeout is specific to timeouts: it is none
\* of the strings shown for a transport failure.
C9_TimeoutSpecific ==
    lastOp = "TimedOut" /\ TargetPresent(sessions, Len(runs)) =>
        AssistantMessage(sessions, Len(runs)).text \notin GenericFailureTexts

\* C9, the rest: after a timeout the guard is released and the run is over.
C9_ReleasedAfterTimeout ==
    lastOp = "TimedOut" =>
        ~sendingRef /\ ~busy /\ runs[Len(runs)].pc = "done"

(* ----------------------------- annotation ----------------------------- *)
\* C11: maybeAttachNote is idempotent: for every text (a string, or none),
\* every intent and every language, applying it to its own result, with the
\* same intent and language, returns that result.
C11_AnnotateIdempotent ==
    anDone /\ anIn.text.type # "null" =>
        /\ ~anOut.once.raised
        /\ anOut.twice = anOut.once

C11_Witness ==
    /\ anDone
    /\ anIn.text = JsString(<<"a">> \o <<"*", "*", "N", "O", "T", "E", ":", "*", "*">> \o <<"a">>)
    /\ anIn.intent = JsString("wire_fraud")
    /\ anIn.lang = JsString("my")
    /\ anOut.once = Returned(<<"a", "\n", "\n">> \o NOTE_MY)
    /\ anOut.twice = anOut.once

\* the last message of the session a unary send captured
LastOfTarget(r) ==
    LET msgs == Find(sessions, runs[r].target).messages IN msgs[Len(msgs)]

\* C12: the assistant message a successful unary send appends, for a
\* response {reply, intent, language}, is maybeAttachNote(reply, intent,
\* language): the note-stripped reply, then for a sensitive intent two
\* newlines and one note, Burmese when language is "my" and English
\* otherwise; for any other or no intent the note-stripped reply alone.
C12_UnaryAnnotated ==
    \A r \in 1..Len(runs) :
        LET resp == runs[r].resp
            clean == stripBackendNote(ReplyOrEmpty(resp.reply)).val
        IN
        /\ lastOp = "reply"
        /\ runs[r].pc = "releasing"
        /\ resp.reasoning = JsUndefined
        /\ TargetPresent(sessions, r)
        => /\ LastOfTarget(r).role = "assistant"
           /\ LastOfTarget(r).text =
                maybeAttachNote(ReplyOrEmpty(resp.reply), resp.intent,
                                resp.language).val
           /\ LastOfTarget(r).text =
                IF resp.intent = JsString("wire_fraud")
                THEN clean \o <<"\n", "\n">>
                     \o (IF resp.language = JsString("my")
                         THEN NOTE_MY ELSE NOTE_EN)
                ELSE clean
           /\ clean = <<"H", "i">> \/ clean = <<>>

C12_Witness ==
    \E r \in 1..Len(runs) :
        /\ lastOp = "reply"
        /\ runs[r].resp = [reply |-> JsString(<<"H", "i">>),
                           intent |-> JsString("wire_fraud"),
                           language |-> JsString("en"),
                           reasoning |-> JsUndefined]
        /\ TargetPresent(sessions, r)
        /\ LastOfTarget(r).text = <<"H", "i", "\n", "\n">> \o NOTE_EN

\* C13: when a streaming send completes, the text of its assistant message
\* is maybeAttachNote applied to the concatenation of the fragments, with the
\* intent and language of the reply.
C13_StreamAnnotated ==
    [][\A r \in Streaming :
        /\ lastOp' = "stream_end"
        /\ runs'[r].pc = "done"
        /\ TargetPresent(sessions', r)
        => AssistantMessage(sessions', r).text =
            maybeAttachNote(JsString(Concat(runs[r].delivered)),
                            REPLY_INTENT, REPLY_LANG).val]_vars

\* C14: maybeAttachNote returns a string, and raises nothing, for every
\* text, intent and language, the missing and the null ones included.
C14_AnnotateTotal == anDone => ~anOut.once.raised

\* C14, the values that do degrade: with a text that is a string or missing,
\* a missing or null intent gives no note and a missing, null or unknown
\* language gives the English note.
C14_DefaultsApply ==
    anDone /\ anIn.text.type # "null" =>
        /\ ~anOut.once.raised
        /\ anIn.text.type = "undefined" /\ ~IsSensitive(anIn.intent)
            => anOut.once.val = <<>>
        /\ anIn.intent.type # "string"
            => anOut.once = stripBackendNote(anIn.text)
        /\ IsSensitive(anIn.intent) /\ anIn.lang # JsString("my")
            => anOut.once.val =
                stripBackendNote(anIn.text).val \o <<"\n", "\n">> \o NOTE_EN

(* ----------------------------- upload flow ---------------------------- *)
Waiting == {u \in 1..Len(uploads) : uploads[u].pc = "waiting"}

LastMessage(all, id) ==
    LET msgs == Find(all, id).messages IN msgs[Len(msgs)]

\* the texts the upload flow appends when the upload or the formatting failed
UploadFailureTexts ==
    {UPLOAD_ERROR \o m : m \in UploadErrors \cup {REPORT_TYPE_ERROR}}

\* C15: an upload that has appended its user message ends, in the session it
\* captured while that session exists, with exactly one assistant message
\* appended: the formatted report, or a message with the error detail when
\* the upload or the formatting failed; it ends once, and it always ends.
C15_UploadAnswered ==
    /\ [](\A u \in 1..Len(uploads) :
            uploads[u].replies = (IF uploads[u].pc = "done" THEN 1 ELSE 0))
    /\ [][\A u \in Waiting :
            uploads'[u].pc = "done" /\ HasSession(sessions, uploads[u].target)
            => LET id == uploads[u].target
                   before == Find(sessions, id).messages
                   after == Find(sessions', id).messages
               IN /\ Len(sessions') = Len(sessions)
                  /\ Len(after) = Len(before) + 1
                  /\ SubSeq(after, 1, Len(before)) = before
                  /\ after[Len(after)].role = "assistant"
                  /\ \/ /\ uploads'[u].report.kind = "object"
                        /\ after[Len(after)].text
                                = FormatReport(uploads'[u].report)
                     \/ /\ uploads'[u].report.kind # "object"
                        /\ after[Len(after)].text \in UploadFailureTexts]_vars
    /\ [][\A u \in 1..Len(uploads) :
            uploads[u].pc = "done" => uploads'[u] = uploads[u]]_vars
    /\ \A u \in 1..MaxUploads : (u \in Waiting) ~> (u \notin Waiting)

C15_Witness ==
    \E u \in 1..Len(uploads) :
        /\ uploads[u].pc = "done"
        /\ uploads[u].report = NullReport
        /\ HasSession(sessions, uploads[u].target)
        /\ uploads[u].target # activeId
        /\ LastMessage(sessions, uploads[u].target).text
                = UPLOAD_ERROR \o REPORT_TYPE_ERROR

\* the lines of a text: the pieces between its "\n"
RECURSIVE SplitLines(_)
SplitLines(text) ==
    LET breaks == {i \in 1..Len(text) : text[i] = "\n"} IN
    IF breaks = {} THEN <<text>>
    ELSE LET b == CHOOSE i \in breaks : \A j \in breaks : i <= j IN
         <<SubSeq(text, 1, b - 1)>>
         \o SplitLines(SubSeq(text, b + 1, Len(text)))

\* C16: the message appended for a report is the risk/score line, then one
\* line per finding, in order, numbered from 1: the number, ". ", the rule,
\* and " - " with the detail only when the detail is not empty; a report
\* without a findings list gives the risk/score line alone.
C16_ReportFormat ==
    [][\A u \in 1..Len(uploads) :
        LET report == uploads'[u].report
            findings == IF report.hasFindings THEN report.findings ELSE <<>>
        IN
        /\ uploads[u].pc = "waiting" /\ uploads'[u].pc = "done"
        /\ report.kind = "object"
        /\ HasSession(sessions, uploads[u].target)
        => LET lines ==
                SplitLines(LastMessage(sessions', uploads[u].target).text)
           IN /\ Len(Find(sessions', uploads[u].target).messages)
                    = Len(Find(sessions, uploads[u].target).messages) + 1
              /\ LastMessage(sessions', uploads[u].target).role = "assistant"
              /\ Len(lines) = 1 + Len(findings)
              /\ lines[1] = <<"**Risk level:** ", report.risk_level,
                              " (score ", ToString(report.score), ")">>
              /\ \A k \in 1..Len(findings) :
                    /\ SubSeq(lines[k + 1], 1, 3)
                            = <<ToString(k), ". ", findings[k].rule>>
                    /\ findings[k].detail = ""
                            => Len(lines[k + 1]) = 3
                    /\ findings[k].detail # ""
                            => SubSeq(lines[k + 1], 4, Len(lines[k + 1]))
                                    = <<" - ", findings[k].detail>>]_vars

C16_Witness ==
    \E u \in 1..Len(uploads) :
        /\ uploads[u].pc = "done"
        /\ uploads[u].report =
            Report("high", 87, TRUE,
                   <<[rule |-> "typo", detail |-> ""],
                     [rule |-> "url-mismatch", detail |-> "domain spoof"]>>)
        /\ HasSession(sessions, uploads[u].target)
        /\ LastMessage(sessions, uploads[u].target).text =
            <<"**Risk level:** ", "high", " (score ", "87", ")",
              "\n", "1", ". ", "typo",
              "\n", "2", ". ", "url-mismatch", " - ", "domain spoof">>

LacksFields(stored) ==
    /\ stored.kind = "list"
    /\ \E i \in 1..Len(stored.items) : stored.items[i].has # SessionFields

\* C18: whatever is stored under SESS_KEY, the start of the client does not
\* fail and ends with a non-empty collection and an activeId that is the id
\* of one of its sessions; stored content that is absent or lacks expected
\* properties gives one fresh default session.
C18_StartupSafe ==
    [][lastOp = "boot" =>
        /\ lastOp' = "init"
        /\ Len(sessions') >= 1
        /\ activeId' \in Ids(sessions')
        /\ persisted.kind = "absent" \/ LacksFields(persisted)
            => Len(sessions') = 1 /\ IsFreshDefault(sessions'[1])]_vars

\* C18, what does hold: with nothing stored (or the empty string) the client
\* starts with one fresh default session, active; a stored list of complete
\* sessions is restored as it was, its first session active.
C18_DefaultWhenAbsent ==
    [][lastOp = "boot" =>
        /\ persisted.kind \in {"absent", "empty"}
            => /\ lastOp' = "init"
               /\ Len(sessions') = 1
               /\ IsFreshDefault(sessions'[1])
               /\ activeId' = sessions'[1].id
        /\ persisted.kind = "list" /\ persisted.items # <<>>
           /\ ~LacksFields(persisted)
            => /\ lastOp' = "init"
               /\ sessions' = ParseItems(persisted.items)
               /\ persisted' = persisted
               /\ activeId' = sessions'[1].id]_vars

(* ------------------------ in-place text mutation ---------------------- *)
\* the messages of session s whose content differs in its next state t
Mutated(s, t) ==
    {k \in 1..Len(s.messages) :
        k <= Len(t.messages) /\ t.messages[k] # s.messages[k]}

\* C19: whatever upload, new-chat, select and delete operations run between
\* the steps of a send, a step changes the text of no message but the last
\* message of a session, which has role assistant, and removes no message
\* from a session that still exists.
C19_MutatesLastAssistantOnly ==
    [][\A i \in 1..Len(sessions), j \in 1..Len(sessions') :
        sessions'[j].id = sessions[i].id =>
            /\ Len(sessions'[j].messages) >= Len(sessions[i].messages)
            /\ \A k \in Mutated(sessions[i], sessions'[j]) :
                /\ k = Len(sessions[i].messages)
                /\ sessions[i].messages[k].role = "assistant"]_vars

\* C19, what does hold: no step removes a message from a session that
\* still exists, and a message whose text changes is an assistant message
\* before and after, the one its send reserved.
C19_AppendOnlyAssistantEdits ==
    [][\A i \in 1..Len(sessions), j \in 1..Len(sessions') :
        sessions'[j].id = sessions[i].id =>
            /\ Len(sessions'[j].messages) >= Len(sessions[i].messages)
            /\ \A k \in Mutated(sessions[i], sessions'[j]) :
                /\ sessions[i].messages[k].role = "assistant"
                /\ sessions'[j].messages[k].role = "assistant"
                /\ \E r \in Streaming :
                    /\ runs[r].target = sessions[i].id
                    /\ runs[r].assistantIndex + 1 = k]_vars

Rejections == {"send_duplicate", "send_inflight"}

\* C21: a send the guard rejects (a send is in flight, or the text repeats
\* the last one within the window) changes no state: no message is
\* appended, input and busy stay as they are, and lastSent still holds the
\* text and time of the most recently accepted send.
C21_RejectedChangesNothing ==
    [][lastOp' \in Rejections =>
        /\ sessions' = sessions
        /\ input' = input
        /\ busy' = busy
        /\ lastSendRef' = lastSendRef
        /\ lastSendRef' = lastAccepted']_vars

\* C21, what does hold: a rejected send appends no message, starts no
\* transport call and leaves input, busy and the in-flight flag alone.
C21_RejectedAppendsNothing ==
    [][lastOp' \in Rejections =>
        /\ sessions' = sessions /\ persisted' = persisted
        /\ runs' = runs /\ uploads' = uploads
        /\ input' = input /\ busy' = busy
        /\ sendingRef' = sendingRef
        /\ activeId' = activeId]_vars

\* C22: a send whose input is empty after trimming changes no state: no
\* message is appended, the in-flight flag and lastSent are unchanged, no
\* transport call is made and the input field is not cleared.
C22_EmptySendChangesNothing ==
    [][lastOp' \in SendOps /\ Trim(input) = <<>> =>
        /\ lastOp' = "send_empty"
        /\ sessions' = sessions /\ persisted' = persisted
        /\ sendingRef' = sendingRef /\ lastSendRef' = lastSendRef
        /\ runs' = runs /\ uploads' = uploads
        /\ input' = input /\ busy' = busy
        /\ activeId' = activeId]_vars

\* a send of whitespace only was just rejected, the whitespace still in the
\* input field, while an earlier send is in flight
C22_Witness ==
    /\ lastOp = "send_empty"
    /\ input # <<>> /\ Trim(input) = <<>>
    /\ sendingRef

(* --------------------------- order in a send -------------------------- *)
\* the messages of the session send r was started in
TargetMessages(r) == Find(sessions, runs[r].target).messages

RECURSIVE UserTexts(_)
UserTexts(msgs) ==
    IF msgs = <<>> THEN <<>>
    ELSE IF Head(msgs).role = "user"
         THEN <<Head(msgs).text>> \o UserTexts(Tail(msgs))
         ELSE UserTexts(Tail(msgs))

\* the title the first user message gives: text.slice(0, 32) || "New chat"
TitleOf(text) ==
    IF Slice0(text, TITLE_MAX) # <<>> THEN Slice0(text, TITLE_MAX) ELSE NEW_CHAT

\* C24: the title of a session is set at most once, by the first user
\* message appended to it (typed or upload placeholder), to the first 32
\* characters of that message or "New chat" when empty; no later user
\* message changes it, whatever the first message was.
C24_TitleSetOnce ==
    \A i \in 1..Len(sessions) :
        sessions[i].title =
            IF UserTexts(sessions[i].messages) = <<>> THEN NEW_CHAT
            ELSE TitleOf(UserTexts(sessions[i].messages)[1])

\* C24, what does hold: a first user message other than "New chat" sets
\* the title to its first 32 characters, and later messages leave it.
C24_TitleFromFirstOther ==
    \A i \in 1..Len(sessions) :
        LET texts == UserTexts(sessions[i].messages) IN
        sessions[i].title =
            IF texts = <<>> THEN NEW_CHAT
            ELSE IF \A k \in 1..Len(texts) : texts[k] = NEW_CHAT THEN NEW_CHAT
            ELSE TitleOf(texts[CHOOSE k \in 1..Len(texts) :
                            /\ texts[k] # NEW_CHAT
                            /\ \A h \in 1..(k - 1) : texts[h] = NEW_CHAT])

(* ------------------------------ deletion ------------------------------ *)
\* list `all` without its k-th element
Without(all, k) ==
    [i \in 1..(Len(all) - 1) |-> IF i < k THEN all[i] ELSE all[i + 1]]

\* C25: deleting a session removes exactly the session with that id and
\* leaves the others unchanged and in their order; when the deleted session
\* was active and others remain the first remaining one becomes active,
\* otherwise activeId is unchanged; deleting an id the collection does not
\* hold changes nothing.
C25_DeleteExactlyOne ==
    /\ [](\A id \in 1..(MaxListed + 1) :
            id \notin Ids(sessions) =>
                LET res == DeleteResult(sessions, id, activeId, nextId, clock)
                IN  /\ res.sessions = sessions
                    /\ res.activeId = activeId
                    /\ ~res.used
                    /\ ~ENABLED onDeleteSession(id))
    /\ [][lastOp' \in {"delete_active", "delete_other"} =>
            \E k \in 1..Len(sessions) :
                /\ sessions' = Without(sessions, k)
                /\ sessions[k].id \notin Ids(sessions')
                /\ IF sessions[k].id = activeId
                   THEN activeId' = sessions'[1].id /\ lastOp' = "delete_active"
                   ELSE activeId' = activeId /\ lastOp' = "delete_other"]_vars

\* a session in the middle of the list was deleted: the active one, with
\* two others left around it
C25_Witness ==
    /\ lastOp = "delete_active"
    /\ Len(sessions) = 2
    /\ sessions[1].id = 3 /\ sessions[2].id = 1
    /\ activeId = 3

(* ------------------------------ creation ------------------------------ *)
\* the ids handed out so far: those of the sessions of the collection and
\* of the deleted ones
Issued == 1..(nextId - 1)

\* C26: new chat inserts exactly one new session at the front of the
\* collection, with an id no existing or deleted session has, the title
\* "New chat" and the seeded greeting only, makes it active and leaves
\* every existing session unchanged.
C26_CreateAtFront ==
    /\ [](Ids(sessions) \subseteq Issued)
    /\ [][Len(sessions') = Len(sessions) + 1 =>
            /\ Tail(sessions') = sessions
            /\ sessions'[1].id \notin Issued
            /\ sessions'[1].id \notin Ids(sessions)
            /\ IsFreshDefault(sessions'[1])
            /\ activeId' = sessions'[1].id
            /\ sessions'[1].id \in Issued']_vars

\* a new chat was started after session 2 was deleted, next to session 1
\* which has a message of its own
C26_Witness ==
    /\ Len(sessions) = 2
    /\ sessions[1].id = 3 /\ sessions[2].id = 1
    /\ IsFreshDefault(sessions[1])
    /\ Len(sessions[2].messages) > 1
    /\ activeId = 3
    /\ nextId = 4

(* -------------------------- the seeded greeting ----------------------- *)
SeededGreeting == [role |-> "assistant", text |-> GREETING]

\* C27: every session of the collection has a non-empty message sequence
\* whose first message is the seeded assistant greeting; no send, fragment,
\* error replacement or upload ever changes it.
C27_GreetingFirst ==
    \A i \in 1..Len(sessions) :
        /\ sessions[i].messages # <<>>
        /\ sessions[i].messages[1] = SeededGreeting

\* a send failed and an upload was answered in a session: the greeting is
\* still its first message, three or more messages after it
C27_Witness ==
    \E i \in 1..Len(sessions) :
        /\ Len(sessions[i].messages) >= 4
        /\ sessions[i].messages[1] = SeededGreeting
        /\ \E k \in 2..Len(sessions[i].messages) :
            sessions[i].messages[k].text = SERVER_ERROR \o <<"m">>
        /\ \E k \in 2..Len(sessions[i].messages) :
            sessions[i].messages[k].role = "user"
                /\ sessions[i].messages[k].text # <<"a">>

(* ---------------------------- settled sends --------------------------- *)
\* the user message and the assistant message of send r in collection all
Exchange(all, r) ==
    SubSeq(Find(all, runs[r].target).messages,
           runs[r].assistantIndex, runs[r].assistantIndex + 1)

LastTarget == runs[Len(runs)].target

ClaimedDetail(res) ==
    IF Truthy(DetailOf(res.body.parsed)) THEN DetailOf(res.body.parsed)
    ELSE IF res.body.raw # <<>> THEN JsString(res.body.raw)
    ELSE JsString(res.statusText)

\* C30: for every non-success status http raises a failure whose detail is
\* the detail property of a JSON body when not empty, else the response
\* text, else the status text; for a success status it returns the parsed
\* body, or an empty object when the body is empty; the timeout timer is
\* cleared on every exit path.
C30_HttpOutcome ==
    call.pc = "done" =>
        /\ call.cleared = 1
        /\ call.arrived /\ ~Ok(call.res.status) =>
            /\ call.out.raised
            /\ JsString(call.out.detail) = ClaimedDetail(call.res)
        /\ call.arrived /\ Ok(call.res.status) =>
            /\ ~call.out.raised
            /\ call.out.val = IF call.res.body.raw = <<>> THEN EmptyObject
                              ELSE call.res.body.parsed

\* C30, what does hold: clear() runs once on every exit path; a non-success
\* status always raises, with a detail property that is a non-empty string,
\* else (http of api.js) the response text, else the status text; a success
\* status with an empty body returns an empty object and with a JSON body
\* the parsed body.
C30_HttpActual ==
    call.pc = "done" =>
        /\ call.cleared = 1
        /\ call.timer # "armed"
        /\ ~call.arrived => call.out.raised
        /\ call.arrived /\ ~Ok(call.res.status) =>
            /\ call.out.raised /\ call.out.name = "Error"
            /\ DetailOf(call.res.body.parsed).type = "string"
               /\ DetailOf(call.res.body.parsed).val # <<>>
                => call.out.detail = DetailOf(call.res.body.parsed).val
            /\ call.variant = "api"
               /\ ~Truthy(DetailOf(call.res.body.parsed))
                => call.out.detail = IF call.res.body.raw # <<>>
                                     THEN call.res.body.raw
                                     ELSE call.res.statusText
        /\ call.arrived /\ Ok(call.res.status) =>
            /\ call.res.body.raw = <<>> => call.out = Returned(EmptyObject)
            /\ call.res.body.parsed.kind # "not_json"
                => call.out = Returned(call.res.body.parsed)
            /\ call.out.raised =>
                /\ call.res.body.parsed.kind = "not_json"
                /\ call.res.body.raw # <<>>
                /\ call.out.name = "SyntaxError"

(* ------------------------ one session per update ---------------------- *)
\* the positions of the collection whose session differs in the next state
Changed == {i \in 1..Len(sessions) : sessions'[i] # sessions[i]}

\* a step that appends to or rewrites messages: the collection keeps its
\* sessions (same ids at the same places) and some session differs
MessageStep ==
    /\ Len(sessions') = Len(sessions)
    /\ \A i \in 1..Len(sessions) : sessions'[i].id = sessions[i].id
    /\ sessions' # sessions

\* C31: every operation that appends or rewrites a message (the user
\* append, the placeholder append, a fragment update, the error
\* replacement of a send; the user and the assistant append of an upload)
\* changes only the session whose id was active when its handler started;
\* id, title, messages and createdAt of every other session are unchanged,
\* and so are the id and createdAt of the target session.
C31_OnlyTargetSession ==
    [][MessageStep =>
        /\ Cardinality(Changed) = 1
        /\ \A i \in Changed :
            /\ sessions'[i].id = sessions[i].id
            /\ sessions'[i].createdAt = sessions[i].createdAt
            /\ Len(runs') > Len(runs) \/ Len(uploads') > Len(uploads)
                => sessions[i].id = activeId
            /\ \A r \in 1..Len(runs) :
                runs'[r] # runs[r] => sessions[i].id = runs[r].target
            /\ \A u \in 1..Len(uploads) :
                uploads'[u] # uploads[u] => sessions[i].id = uploads[u].target]_vars

\* a report was appended to the session its upload was started in while
\* another session, still as new chat made it, is the active one
C31_Witness ==
    \E u \in 1..Len(uploads) :
        /\ uploads[u].pc = "done"
        /\ uploads[u].report.kind = "object"
        /\ uploads[u].target # activeId
        /\ HasSession(sessions, uploads[u].target)
        /\ LastMessage(sessions, uploads[u].target).text
                = FormatReport(uploads[u].report)
        /\ HasSession(sessions, activeId)
        /\ IsFreshDefault(Find(sessions, activeId))

(* ------------------------ two messages per send ----------------------- *)
\* the accepted sends and the uploads started in session id
SendsIn(id) == {r \in 1..Len(runs) : runs[r].target = id}
UploadsIn(id) == {u \in 1..Len(uploads) : uploads[u].target = id}
AnsweredIn(id) == {u \in UploadsIn(id) : uploads[u].replies = 1}

\* the messages of session s with the given role
WithRole(s, role) ==
    {k \in 1..Len(s.messages) : s.messages[k].role = role}

\* C32: every accepted send, ended in success or in failure or not yet
\* ended, has added exactly two messages to its session when that session
\* still exists: one user message with the trimmed input and, after it, one
\* assistant message; never none and never a second assistant message.
\* (The other messages of a session are its greeting and those of uploads.)
C32_TwoMessagesPerSend ==
    \A i \in 1..Len(sessions) :
        LET s == sessions[i] IN
        /\ Cardinality(WithRole(s, "user"))
            = Cardinality(SendsIn(s.id)) + Cardinality(UploadsIn(s.id))
        /\ Cardinality(WithRole(s, "assistant"))
            = 1 + Cardinality(SendsIn(s.id)) + Cardinality(AnsweredIn(s.id))
        /\ \A r \in SendsIn(s.id) :
            /\ s.messages[runs[r].assistantIndex]
                = [role |-> "user", text |-> runs[r].text]
            /\ s.messages[runs[r].assistantIndex + 1].role = "assistant"
            /\ \A q \in SendsIn(s.id) :
                q # r => runs[q].assistantIndex # runs[r].assistantIndex

\* C32 for the unary client: a send that waits for its reply has added its
\* user message, a send that has its reply or its error has added two
\* messages.
C32_UnaryTwoMessages ==
    \A i \in 1..Len(sessions) :
        LET s == sessions[i]
            answered == {r \in SendsIn(s.id) : runs[r].pc # "waiting"}
        IN
        /\ Cardinality(WithRole(s, "user")) = Cardinality(SendsIn(s.id))
        /\ Cardinality(WithRole(s, "assistant")) = 1 + Cardinality(answered)

\* one session holds a send that ended with the reply and a send that
\* ended with an error: the greeting and two messages for each
C32_Witness ==
    \E r, q \in Finished :
        /\ r # q
        /\ runs[r].target = runs[q].target
        /\ TargetPresent(sessions, r)
        /\ AssistantMessage(sessions, r).text = REPLY
        /\ AssistantMessage(sessions, q).text # <<>>
        /\ <<Head(AssistantMessage(sessions, q).text)>> = SERVER_ERROR
        /\ Len(Find(sessions, runs[r].target).messages) = 5
====
